---- MODULE Spec2Model ----
(***************************************************************************)
(* Blue Desktop Environment: the session core (src/compositor.rs,          *)
(* BlueEnvironment), the settings-panel client (src/launcher.rs,           *)
(* BlueLauncher) and the mode selection of src/main.rs, as state machines. *)
(***************************************************************************)
EXTENDS Integers, Sequences, FiniteSets, TLC

(***************************************************************************)
(* f32 arithmetic.  A value x is held as the integer x * 2^27.  Every f32  *)
(* of magnitude at least 2^-4 (and below 4) is a multiple of 2^-27, sums   *)
(* of such values are multiples of 2^-27, and a sum below 2^-3 has at most *)
(* 24 significant bits, so it is exact: the representation loses nothing   *)
(* for the values brightness and volume take.                              *)
(***************************************************************************)
F32Unit == 134217728

F32Zero == 0

F32One == F32Unit

\* 0.5f32, the initial brightness and volume
F32Half == 67108864

\* 0.1f32 = 0x3DCCCCCD = 13421773 * 2^-27
F32Tenth == 13421773

\* the width of the f32 significand
MantissaBits == 24

Pow2(k) == 2 ^ k

\* the spacing (in units of 2^-27) of the f32 values of magnitude n
Quantum(n) ==
  IF n < Pow2(MantissaBits) THEN 1
  ELSE IF n < Pow2(MantissaBits + 1) THEN 2
  ELSE IF n < Pow2(MantissaBits + 2) THEN 4
  ELSE IF n < Pow2(MantissaBits + 3) THEN 8
  ELSE IF n < Pow2(MantissaBits + 4) THEN 16
  ELSE 32

\* round a non-negative n to the nearest multiple of q, ties to even
RoundTo(n, q) ==
  LET r == n % q
      down == n - r
  IN IF 2 * r < q THEN down
     ELSE IF 2 * r > q THEN down + q
     ELSE IF (down \div q) % 2 = 0 THEN down
     ELSE down + q

\* IEEE-754 round-to-nearest-even of an exact result to f32
RoundF32(n) ==
  IF n >= 0 THEN RoundTo(n, Quantum(n)) ELSE 0 - RoundTo(0 - n, Quantum(0 - n))

\* f32 addition
F32Add(a, b) == RoundF32(a + b)

\* f32::clamp(self, min, max)
\* clamp that forgets the upper bound
F32Clamp_NoUpper(x, lo, hi) == IF x < lo THEN lo ELSE x

F32Clamp(x, lo, hi) == IF x < lo THEN lo ELSE IF x > hi THEN hi ELSE x

\* (x * 100.0) as u32: the f32 product, rounded, then truncated toward zero
\* (a negative value saturates to 0).  100 * n does not fit 32 bits, so the
\* product is held as t * 2^14 + u.
Percent(n) ==
  IF n <= 0 THEN 0
  ELSE
    LET hi == n \div 16384
        lo == n % 16384
        t == 100 * hi + ((100 * lo) \div 16384)
        u == (100 * lo) % 16384
        \* the spacing of f32 at the product, from its binade
        q == IF t < 8192 THEN 8
             ELSE IF t < 2 * 8192 THEN 16
             ELSE IF t < 4 * 8192 THEN 32
             ELSE IF t < 8 * 8192 THEN 64
             ELSE IF t < 16 * 8192 THEN 128
             ELSE IF t < 32 * 8192 THEN 256
             ELSE IF t < 64 * 8192 THEN 512
             ELSE IF t < 128 * 8192 THEN 1024
             ELSE 2048
        ru == RoundTo(u, q)
    IN IF ru = 16384 THEN (t + 1) \div 8192 ELSE t \div 8192


(***************************************************************************)
(* Bounds of the model.                                                    *)
(***************************************************************************)
\* the longest notification log explored
MaxNotifs == 2

\* the most processes spawned by launch_app in one run
MaxProcs == 2

\* the most windows the window server maps
MaxWindows == 1

\* the most clicks the settings panel handles in one run
MaxClicks == 2

\* the most settings calls in one run of SpecSettings
MaxCalls == 2

\* the most windows in one run of SpecWindows
MaxToplevels == 2

(***************************************************************************)
(* Values.                                                                 *)
(***************************************************************************)
\* the logical names launch_app is called with
AppNames ==
  {"browser", "game_launcher", "terminal", "software_center",
   "kwalletmanager5", "blue-launcher"}

\* io::Error values of a failed spawn
OsErrors == {"ENOENT", "EACCES"}

SpawnResults == {"ok"} \cup OsErrors

Windows == 1 .. MaxWindows

\* a toml value under apps.<name>: a string, or a value of another type
TomlString(s) == [kind |-> "string", str |-> s]

TomlInteger == [kind |-> "integer", str |-> ""]

\* Value::as_str, as Option: the singleton of the string, or the empty set
as_str(v) == IF v.kind = "string" THEN {v.str} ELSE {}

\* config documents: the parsed document (has_apps: the [apps] table is there;
\* apps: its keys; has_appearance: the [appearance] table is there;
\* has_background: so is its key background; background: the value of the key)
DocFull ==
  [valid |-> TRUE, has_apps |-> TRUE,
   apps |-> [n \in {"browser", "game_launcher", "terminal", "software_center"} |->
               TomlString(CASE n = "browser" -> "/usr/bin/brave-browser"
                            [] n = "game_launcher" -> "/usr/bin/steam"
                            [] n = "terminal" -> "/usr/bin/wezterm"
                            [] OTHER -> "/usr/bin/plasma-discover")],
   has_appearance |-> TRUE,
   has_background |-> TRUE, background |-> TomlString("/usr/share/bg.png")]

DocPartial ==
  [valid |-> TRUE, has_apps |-> TRUE,
   apps |-> [n \in {"browser", "terminal"} |->
               IF n = "browser" THEN TomlString("/usr/bin/foo") ELSE TomlInteger],
   has_appearance |-> TRUE,
   has_background |-> TRUE, background |-> TomlInteger]

DocNoApps ==
  [valid |-> TRUE, has_apps |-> FALSE, apps |-> << >>,
   has_appearance |-> TRUE,
   has_background |-> TRUE, background |-> TomlString("/usr/share/bg.png")]

DocNoAppearance ==
  [valid |-> TRUE, has_apps |-> TRUE, apps |-> << >>,
   has_appearance |-> FALSE,
   has_background |-> FALSE, background |-> TomlInteger]

DocMalformed ==
  [valid |-> FALSE, has_apps |-> FALSE, apps |-> << >>,
   has_appearance |-> FALSE,
   has_background |-> FALSE, background |-> TomlInteger]

ConfigDocs == {DocFull, DocPartial, DocNoApps, DocNoAppearance, DocMalformed}

\* notifications (the formatted strings, by their format and arguments)
Launched(app) == [text |-> "Launched {}", arg |-> app, err |-> "", pct |-> 0]

FailedToLaunch(app, e) ==
  [text |-> "Failed to launch {}: {}", arg |-> app, err |-> e, pct |-> 0]

NoPathForApp(app) ==
  [text |-> "No path for app {} in config", arg |-> app, err |-> "", pct |-> 0]

BrightnessSetTo(p) == [text |-> "Brightness set to {}%", arg |-> "", err |-> "", pct |-> p]

VolumeSetTo(p) == [text |-> "Volume set to {}%", arg |-> "", err |-> "", pct |-> p]

WifiTurned(status) == [text |-> "Wi-Fi turned {}", arg |-> status, err |-> "", pct |-> 0]

BluetoothTurned(status) ==
  [text |-> "Bluetooth turned {}", arg |-> status, err |-> "", pct |-> 0]

PlainNote(text) == [text |-> text, arg |-> "", err |-> "", pct |-> 0]

\* a command handed to the execution sink with spawn(); ok: the spawn succeeded
Command(program, arg, p, ok) == [program |-> program, arg |-> arg, pct |-> p, ok |-> ok]

\* Command::new(path).spawn() of launch_app, with its result r
SpawnOf(path, r) == Command(path, r, 0, r = "ok")

\* a call made by a handler: the function and its argument
Call(fn, arg, delta) == [fn |-> fn, arg |-> arg, delta |-> delta]

\* HashMap::insert
MapInsert(m, k, v) == [x \in DOMAIN m \cup {k} |-> IF x = k THEN v ELSE m[x]]

\* HashMap::retain, given the keys whose entries the closure keeps
MapRetain(m, kept) == [x \in kept |-> m[x]]

EmptyMap == << >>


(***************************************************************************)
(* The state.                                                              *)
(***************************************************************************)
VARIABLES
  pc,          \* where the process is: main.rs, start-up, the tick loop, the UI frame
  env,         \* the BlueEnvironment of the session core
  launcher,    \* the BlueLauncher of the settings-panel client
  procs,       \* the processes spawned by launch_app, by pid
  toplevels,   \* the window server's toplevel surfaces
  clicks,      \* the clicks the settings panel has handled
  event,       \* the input event (or UI click) the last handler was given
  before,      \* the struct, processes and toplevels as the last handler found them
  dispatched,  \* the calls the last handler made, in order
  submitted    \* the commands the last handler gave to the execution sink

vars ==
  <<pc, env, launcher, procs, toplevels, clicks, event, before, dispatched, submitted>>

\* the part of the state a method of either struct reads and writes: the struct
\* (self), the process table, the toplevels, the calls and commands made so far,
\* and whether the thread has panicked
World(self, p, t) ==
  [self |-> self, procs |-> p, toplevels |-> t, dispatched |-> << >>,
   submitted |-> << >>, panicked |-> FALSE]

\* push that keeps only the newest entry
Push_Overwrite(w, note) ==
  [w EXCEPT !.self.notifications = <<note>>]

Push(w, note) ==
  [w EXCEPT !.self.notifications = Append(@, note)]

Submit(w, cmd) == [w EXCEPT !.submitted = Append(@, cmd)]

Dispatch(w, call) == [w EXCEPT !.dispatched = Append(@, call)]

Panic(w) == [w EXCEPT !.panicked = TRUE]

Process(name, path) == [name |-> name, path |-> path, state |-> "running"]

\* Command::new(path).spawn() returning Ok(child): the child is the new pid
Spawned(w, name, path) == [w EXCEPT !.procs = Append(@, Process(name, path))]

\* child.try_wait(): Ok(None) while the process runs, Ok(Some(status)) once it
\* has exited, Err when the status cannot be collected
try_wait(p, pid) ==
  CASE p[pid].state = "running" -> "Ok(None)"
    [] p[pid].state = "exited" -> "Ok(Some)"
    [] OTHER -> "Err"

\* an unwrap_or that takes an Err for an exit status
unwrap_or_Exited(r) == IF r = "Ok(None)" THEN "None" ELSE "Some"

\* Result::unwrap_or(None): the Option inside Ok, None for an Err
unwrap_or_None(r) == IF r = "Ok(Some)" THEN "Some" ELSE "None"

\* running_apps.retain(|_, child| child.try_wait().unwrap_or(None).is_none())
Reap(running_apps, p) ==
  MapRetain(running_apps,
            {name \in DOMAIN running_apps :
               unwrap_or_None(try_wait(p, running_apps[name])) = "None"})

(***************************************************************************)
(* BlueEnvironment (src/compositor.rs).                                    *)
(***************************************************************************)
\* self.config["apps"].get(app).and_then(|v| v.as_str()).unwrap_or(app)
Env_app_path(config, app) ==
  IF app \in DOMAIN config.apps /\ as_str(config.apps[app]) # {}
  THEN config.apps[app].str
  ELSE app

\* launch_app that unwraps the result of spawn()
Env_launch_app_Unwrap(w, app, r) ==
  IF w.panicked THEN w
  ELSE IF ~w.self.config.has_apps THEN Panic(w)
  ELSE
    LET app_path == Env_app_path(w.self.config, app)
        w0 == Submit(w, SpawnOf(app_path, r))
    IN IF r = "ok"
       THEN LET w1 == Spawned(w0, app, app_path)
                w2 == [w1 EXCEPT !.self.running_apps =
                                   MapInsert(@, app, Len(w1.procs))]
            IN Push(w2, Launched(app))
       ELSE Panic(w0)

Env_launch_app(w, app, r) ==
  IF w.panicked THEN w
  ELSE IF ~w.self.config.has_apps THEN Panic(w)   \* Index: "index not found"
  ELSE
    LET app_path == Env_app_path(w.self.config, app)
        w0 == Submit(w, SpawnOf(app_path, r))
    IN IF r = "ok"
       THEN LET w1 == Spawned(w0, app, app_path)
                w2 == [w1 EXCEPT !.self.running_apps =
                                   MapInsert(@, app, Len(w1.procs))]
            IN Push(w2, Launched(app))
       ELSE Push(w0, FailedToLaunch(app, r))

Env_adjust_brightness(w, delta, sink) ==
  IF w.panicked THEN w
  ELSE
    LET b == F32Clamp(F32Add(w.self.brightness, delta), F32Zero, F32One)
        brightness_percent == Percent(b)
        w1 == [w EXCEPT !.self.brightness = b]
        w2 == Submit(w1, Command("brightnessctl", "set", brightness_percent, sink))
    IN Push(w2, BrightnessSetTo(brightness_percent))

\* adjust_volume whose notification names the volume as it was before the call
Env_adjust_volume_Stale(w, delta, sink) ==
  IF w.panicked THEN w
  ELSE
    LET v == F32Clamp(F32Add(w.self.volume, delta), F32Zero, F32One)
        volume_percent == Percent(v)
        w1 == [w EXCEPT !.self.volume = v]
        w2 == Submit(w1, Command("wpctl", "set-volume", volume_percent, sink))
    IN Push(w2, VolumeSetTo(Percent(w.self.volume)))

Env_adjust_volume(w, delta, sink) ==
  IF w.panicked THEN w
  ELSE
    LET v == F32Clamp(F32Add(w.self.volume, delta), F32Zero, F32One)
        volume_percent == Percent(v)
        w1 == [w EXCEPT !.self.volume = v]
        w2 == Submit(w1, Command("wpctl", "set-volume", volume_percent, sink))
    IN Push(w2, VolumeSetTo(volume_percent))

\* toggle_wifi that turns Wi-Fi on instead of flipping it
Env_toggle_wifi_On(w, sink) ==
  IF w.panicked THEN w
  ELSE
    LET w1 == [w EXCEPT !.self.wifi_enabled = TRUE]
        status == IF w1.self.wifi_enabled THEN "on" ELSE "off"
        w2 == Submit(w1, Command("nmcli", status, 0, sink))
    IN Push(w2, WifiTurned(status))

Env_toggle_wifi(w, sink) ==
  IF w.panicked THEN w
  ELSE
    LET w1 == [w EXCEPT !.self.wifi_enabled = ~@]
        status == IF w1.self.wifi_enabled THEN "on" ELSE "off"
        w2 == Submit(w1, Command("nmcli", status, 0, sink))
    IN Push(w2, WifiTurned(status))

Env_toggle_bluetooth(w, sink) ==
  IF w.panicked THEN w
  ELSE
    LET w1 == [w EXCEPT !.self.bluetooth_enabled = ~@]
        status == IF w1.self.bluetooth_enabled THEN "on" ELSE "off"
        w2 == Submit(w1, Command("bluetoothctl", status, 0, sink))
    IN Push(w2, BluetoothTurned(status))


\* a toplevel surface: the state the client last acknowledged (current_state())
\* and the configure request still on its way ("none" when there is none)
Toplevel(current, pending) == [current |-> current, pending |-> pending]

\* toplevel.configure(&self.display, kind, None): the request leaves for the client
configure(w, window, kind) ==
  [w EXCEPT !.toplevels[window].pending = kind]

RECURSIVE configure_all(_, _, _)
\* self.space.windows().for_each(|window| window.toplevel().configure(.., NONE, ..))
configure_all(w, windows, kind) ==
  IF windows = << >> THEN w
  ELSE configure_all(configure(w, Head(windows), kind), Tail(windows), kind)

Env_toggle_fullscreen(w, window) ==
  IF w.panicked THEN w
  ELSE IF w.toplevels[window].current = "Fullscreen"
       THEN configure(w, window, "TOPLEVEL")
       ELSE configure(w, window, "FULLSCREEN")

\* Space::window_under(pos): the topmost window covering the position, as Option
\* (a position is the set of windows that cover it; space lists bottom to top)
window_under(space, pos) ==
  LET hits == {i \in 1 .. Len(space) : space[i] \in pos}
  IN IF hits = {} THEN {}
     ELSE {space[CHOOSE i \in hits : \A j \in hits : j <= i]}

\* Space::raise_window(&window, true)
raise_window(space, window) ==
  LET rest == SelectSeq(space, LAMBDA x : x # window)
  IN Append(rest, window)

\* input events
KeyNames == {"Escape", "B", "G", "T", "S", "W", "L", "V", "K", "X"}

ModifierNames == {"logo", "shift", "ctrl"}

KeyStates == {"Pressed", "Released"}

KeyboardEvent(key, mods, state) ==
  [type |-> "Keyboard", key |-> key, mods |-> mods, state |-> state, pos |-> {}]

PointerButtonEvent(button, state, pos) ==
  [type |-> "PointerButton", key |-> button, mods |-> {}, state |-> state, pos |-> pos]

OtherEvent == [type |-> "PointerMotion", key |-> "", mods |-> {}, state |-> "", pos |-> {}]

NoEvent == [type |-> "", key |-> "", mods |-> {}, state |-> "", pos |-> {}]

\* every event handle_input can be given
AllInputEvents ==
  {KeyboardEvent(k, m, st) : k \in KeyNames, m \in SUBSET ModifierNames, st \in KeyStates}
  \cup {PointerButtonEvent(b, st, pos) :
          b \in {"Left", "Right"}, st \in KeyStates, pos \in SUBSET Windows}
  \cup {OtherEvent}

\* the events the runs deliver: every binding pressed with exactly its
\* modifiers, bound keys pressed with more and with fewer modifiers, an unbound
\* key, releases, and the pointer buttons on every position
InputEvents ==
  {KeyboardEvent(k, {"logo"}, "Pressed") : k \in KeyNames}
  \cup {KeyboardEvent("V", {"logo", "shift"}, "Pressed"),
        KeyboardEvent("B", {"logo", "shift"}, "Pressed"),
        KeyboardEvent("W", {"logo", "ctrl"}, "Pressed"),
        KeyboardEvent("B", {}, "Pressed"),
        KeyboardEvent("V", {"shift"}, "Pressed"),
        KeyboardEvent("B", {"logo"}, "Released"),
        KeyboardEvent("V", {"logo", "shift"}, "Released"),
        KeyboardEvent("Escape", {"logo"}, "Released")}
  \cup {PointerButtonEvent("Left", st, pos) : st \in KeyStates, pos \in SUBSET Windows}
  \cup {PointerButtonEvent("Right", "Pressed", {}), OtherEvent}

\* the condition without its test of the edge
LogoPress_AnyEdge(ev, key) == ev.key = key /\ "logo" \in ev.mods

\* keycode == xkb::KEY_<key> && modifiers.logo && state == KeyState::Pressed
LogoPress(ev, key) ==
  ev.key = key /\ "logo" \in ev.mods /\ ev.state = "Pressed"

\* the outcomes the environment decides while a handler runs: the result of
\* the spawn of launch_app, and whether the execution sink takes a command
\* (no handler asks for both, so they vary one at a time)
Oracles ==
  {[spawn |-> r, sink |-> TRUE] : r \in SpawnResults}
  \cup {[spawn |-> "ok", sink |-> FALSE]}

\* one `if` of handle_input is taken: its condition holds (and no earlier call
\* has panicked)
Taken(w, cond) == cond /\ ~w.panicked

\* OnEscape configuring only the topmost window of the space
OnEscape_Topmost(w, ev) ==
  IF Taken(w, LogoPress(ev, "Escape")) /\ w.self.space # << >>
  THEN configure(Dispatch(w, Call("return_to_desktop", "", 0)),
                 w.self.space[Len(w.self.space)], "NONE")
  ELSE w

\* if keycode == KEY_Escape && .. { windows().for_each(.. configure NONE ..) }
OnEscape(w, ev) ==
  IF Taken(w, LogoPress(ev, "Escape"))
  THEN configure_all(Dispatch(w, Call("return_to_desktop", "", 0)), w.self.space, "NONE")
  ELSE w

\* if keycode == KEY_<key> && .. { self.launch_app(app) }
OnLaunchKey(w, ev, key, app, r) ==
  IF Taken(w, LogoPress(ev, key))
  THEN Env_launch_app(Dispatch(w, Call("launch_app", app, 0)), app, r)
  ELSE w

\* if keycode == KEY_W && .. { self.toggle_wifi() }
OnWifiKey(w, ev, sink) ==
  IF Taken(w, LogoPress(ev, "W"))
  THEN Env_toggle_wifi(Dispatch(w, Call("toggle_wifi", "", 0)), sink)
  ELSE w

\* if keycode == KEY_L && .. { self.toggle_bluetooth() }
OnBluetoothKey(w, ev, sink) ==
  IF Taken(w, LogoPress(ev, "L"))
  THEN Env_toggle_bluetooth(Dispatch(w, Call("toggle_bluetooth", "", 0)), sink)
  ELSE w

\* if keycode == KEY_V && modifiers.logo && Pressed { self.adjust_volume(0.1) }
OnVolumeUp(w, ev, sink) ==
  IF Taken(w, LogoPress(ev, "V"))
  THEN Env_adjust_volume(Dispatch(w, Call("adjust_volume", "", F32Tenth)), F32Tenth, sink)
  ELSE w

\* if keycode == KEY_V && modifiers.logo && modifiers.shift && Pressed
\*   { self.adjust_volume(-0.1) }
OnVolumeDown(w, ev, sink) ==
  IF Taken(w, LogoPress(ev, "V") /\ "shift" \in ev.mods)
  THEN Env_adjust_volume(Dispatch(w, Call("adjust_volume", "", 0 - F32Tenth)),
                         0 - F32Tenth, sink)
  ELSE w

\* the ifs of the Keyboard arm, in the order of the code
Env_handle_keyboard(w0, ev, o) ==
  LET w1 == OnEscape(w0, ev)
      w2 == OnLaunchKey(w1, ev, "B", "browser", o.spawn)
      w3 == OnLaunchKey(w2, ev, "G", "game_launcher", o.spawn)
      w4 == OnLaunchKey(w3, ev, "T", "terminal", o.spawn)
      w5 == OnLaunchKey(w4, ev, "S", "software_center", o.spawn)
      w6 == OnWifiKey(w5, ev, o.sink)
      w7 == OnBluetoothKey(w6, ev, o.sink)
      w8 == OnVolumeUp(w7, ev, o.sink)
      w9 == OnVolumeDown(w8, ev, o.sink)
  IN OnLaunchKey(w9, ev, "K", "kwalletmanager5", o.spawn)

Env_handle_pointer(w, ev, o) ==
  IF ev.key = "Left" /\ ev.state = "Pressed"
  THEN LET under == window_under(w.self.space, ev.pos)
       IN IF under # {}
          THEN LET window == CHOOSE x \in under : TRUE
                   w1 == [w EXCEPT !.self.space = raise_window(@, window)]
               IN Env_toggle_fullscreen(
                    Dispatch(w1, Call("toggle_fullscreen", "", window)), window)
          ELSE Env_launch_app(Dispatch(w, Call("launch_app", "blue-launcher", 0)),
                              "blue-launcher", o.spawn)
  ELSE w

Env_handle_input(w, ev, o) ==
  CASE ev.type = "Keyboard" ->
         IF w.self.keyboard THEN Env_handle_keyboard(w, ev, o) ELSE w
    [] ev.type = "PointerButton" ->
         IF w.self.pointer THEN Env_handle_pointer(w, ev, o) ELSE w
    [] OTHER -> w


\* what the start-up status queries give: the captured output of nmcli,
\* bluetoothctl and upower, or "fail" when the tool cannot be run
ProbeFail == [nmcli |-> "fail", bluetoothctl |-> "fail", upower |-> "fail"]

ProbeOn ==
  [nmcli |-> "enabled", bluetoothctl |-> "Powered: yes",
   upower |-> "state: charging\npercentage: 80%"]

ProbeOff == [nmcli |-> "disabled", bluetoothctl |-> "Powered: no", upower |-> "garbage"]

Probes == {ProbeFail, ProbeOn, ProbeOff}

\* the machines the process starts on: the config document it finds, what the
\* status queries give, and whether add_keyboard, add_pointer, XWayland::new
\* and image::open give Ok
Boot(d, q, kb, ptr, xw, img, distro) ==
  [doc |-> d, probe |-> q, keyboard |-> kb, pointer |-> ptr, xwayland |-> xw,
   image |-> img, distro |-> distro]

Boots ==
  {Boot(DocFull, ProbeOn, TRUE, TRUE, TRUE, TRUE, "bazzite"),
   Boot(DocPartial, ProbeFail, TRUE, TRUE, FALSE, FALSE, "arch"),
   Boot(DocFull, ProbeOff, FALSE, FALSE, TRUE, FALSE, "unknown"),
   Boot(DocNoApps, ProbeFail, TRUE, TRUE, FALSE, TRUE, "ubuntu"),
   Boot(DocNoAppearance, ProbeOn, TRUE, TRUE, FALSE, TRUE, "opensuse"),
   Boot(DocMalformed, ProbeFail, TRUE, TRUE, TRUE, TRUE, "fedora")}

\* .map(|output| ...contains("enabled")).unwrap_or(false)
get_wifi_status(out) == out = "enabled"

\* .map(|output| ...contains("Powered: yes")).unwrap_or(false)
get_bluetooth_status(out) == out = "Powered: yes"

\* the lines holding "state:" or "percentage:", joined with ", "
Env_get_battery_status(out) ==
  CASE out = "fail" -> "Battery not detected"
    [] out = "state: charging\npercentage: 80%" -> "state: charging, percentage: 80%"
    [] OTHER -> ""

\* the struct before BlueEnvironment::new has run
NoEnv ==
  [compositor_state |-> FALSE, seat_state |-> FALSE,
   config |-> DocMalformed, keyboard |-> FALSE, pointer |-> FALSE, xwayland |-> FALSE,
   space |-> << >>, outputs |-> 0, background_texture |-> FALSE,
   running_apps |-> EmptyMap, notifications |-> << >>,
   brightness |-> F32Zero, volume |-> F32Zero,
   wifi_enabled |-> FALSE, bluetooth_enabled |-> FALSE, battery_status |-> ""]

\* BlueEnvironment::new on machine b, with a config that parses
BlueEnvironment_new(b) ==
  [compositor_state |-> TRUE, seat_state |-> TRUE,
   config |-> b.doc, keyboard |-> b.keyboard, pointer |-> b.pointer,
   xwayland |-> b.xwayland,
   space |-> << >>, outputs |-> 0, background_texture |-> FALSE,
   running_apps |-> EmptyMap, notifications |-> << >>,
   brightness |-> F32Half, volume |-> F32Half,
   wifi_enabled |-> get_wifi_status(b.probe.nmcli),
   bluetooth_enabled |-> get_bluetooth_status(b.probe.bluetoothctl),
   battery_status |-> Env_get_battery_status(b.probe.upower)]

\* load_background(renderer, path): opened says whether image::open gave Ok
Env_load_background(e, opened) ==
  IF opened
  THEN [e EXCEPT !.background_texture = TRUE,
                 !.notifications = Append(@, PlainNote("Background loaded"))]
  ELSE [e EXCEPT !.notifications = Append(@, PlainNote("Failed to load background: {}"))]

NoToplevel == Toplevel("unmapped", "none")

\* the tick loop of compositor::main, in the order of its statements
TickStages == <<"time", "xwayland", "input", "reap", "render">>

InLoop == \E i \in 1 .. Len(TickStages) : pc = TickStages[i]



(***************************************************************************)
(* BlueLauncher (src/launcher.rs).                                         *)
(***************************************************************************)
\* the first line holding "state:" or "percentage:", trimmed
Launcher_get_battery_status(out) ==
  CASE out = "fail" -> "Battery not detected"
    [] out = "state: charging\npercentage: 80%" -> "state: charging"
    [] OTHER -> "Unknown battery status"

NoLauncher ==
  [config |-> DocMalformed, distro |-> "", running_apps |-> EmptyMap,
   notifications |-> << >>, brightness |-> F32Zero, volume |-> F32Zero,
   wifi_enabled |-> FALSE, bluetooth_enabled |-> FALSE, battery_status |-> "",
   clipboard_content |-> ""]

\* BlueLauncher::new on machine b, with a config that parses
BlueLauncher_new(b) ==
  [config |-> b.doc, distro |-> b.distro, running_apps |-> EmptyMap,
   notifications |-> << >>, brightness |-> F32Half, volume |-> F32Half,
   wifi_enabled |-> get_wifi_status(b.probe.nmcli),
   bluetooth_enabled |-> get_bluetooth_status(b.probe.bluetoothctl),
   battery_status |-> Launcher_get_battery_status(b.probe.upower),
   clipboard_content |-> ""]

Launcher_launch_app(w, app, r) ==
  IF w.panicked THEN w
  ELSE IF app \in DOMAIN w.self.running_apps THEN w   \* App already running
  ELSE IF ~w.self.config.has_apps \/ app \notin DOMAIN w.self.config.apps
       THEN Panic(w)                                  \* Index: "index not found"
  ELSE IF as_str(w.self.config.apps[app]) # {}
       THEN LET app_path == w.self.config.apps[app].str
                w0 == Submit(w, SpawnOf(app_path, r))
            IN IF r = "ok"
               THEN LET w1 == Spawned(w0, app, app_path)
                        w2 == [w1 EXCEPT !.self.running_apps =
                                           MapInsert(@, app, Len(w1.procs))]
                    IN Push(w2, Launched(app))
               ELSE Push(w0, FailedToLaunch(app, r))
  ELSE Push(w, NoPathForApp(app))

\* adjust_brightness of the panel keeping the screen at 10% or more
Launcher_adjust_brightness_Floor(w, delta, sink) ==
  IF w.panicked THEN w
  ELSE
    LET b == F32Clamp(F32Add(w.self.brightness, delta), F32Tenth, F32One)
        brightness_percent == Percent(b)
        w1 == [w EXCEPT !.self.brightness = b]
        w2 == Submit(w1, Command("brightnessctl", "set", brightness_percent, sink))
    IN Push(w2, BrightnessSetTo(brightness_percent))

Launcher_adjust_brightness(w, delta, sink) ==
  IF w.panicked THEN w
  ELSE
    LET b == F32Clamp(F32Add(w.self.brightness, delta), F32Zero, F32One)
        brightness_percent == Percent(b)
        w1 == [w EXCEPT !.self.brightness = b]
        w2 == Submit(w1, Command("brightnessctl", "set", brightness_percent, sink))
    IN Push(w2, BrightnessSetTo(brightness_percent))

Launcher_adjust_volume(w, delta, sink) ==
  IF w.panicked THEN w
  ELSE
    LET v == F32Clamp(F32Add(w.self.volume, delta), F32Zero, F32One)
        volume_percent == Percent(v)
        w1 == [w EXCEPT !.self.volume = v]
        w2 == Submit(w1, Command("wpctl", "set-volume", volume_percent, sink))
    IN Push(w2, VolumeSetTo(volume_percent))

Launcher_toggle_wifi(w, sink) ==
  IF w.panicked THEN w
  ELSE
    LET w1 == [w EXCEPT !.self.wifi_enabled = ~@]
        status == IF w1.self.wifi_enabled THEN "on" ELSE "off"
        w2 == Submit(w1, Command("nmcli", status, 0, sink))
    IN Push(w2, WifiTurned(status))

Launcher_toggle_bluetooth(w, sink) ==
  IF w.panicked THEN w
  ELSE
    LET w1 == [w EXCEPT !.self.bluetooth_enabled = ~@]
        status == IF w1.self.bluetooth_enabled THEN "on" ELSE "off"
        w2 == Submit(w1, Command("bluetoothctl", status, 0, sink))
    IN Push(w2, BluetoothTurned(status))

\* read_clipboard: got says whether wl-paste could be run
Launcher_read_clipboard(w, got) ==
  IF got
  THEN Push([w EXCEPT !.self.clipboard_content = "pasted"],
            PlainNote("Clipboard content updated"))
  ELSE w

\* app_button: the button was clicked; launch unless the app is shown as running
Launcher_app_button(w, app_key, r) ==
  LET is_running == app_key \in DOMAIN w.self.running_apps
  IN IF ~is_running
     THEN Launcher_launch_app(Dispatch(w, Call("launch_app", app_key, 0)), app_key, r)
     ELSE w

\* the package manager of the "Open Package Manager" button
pkg_manager(distro) ==
  CASE distro \in {"bazzite", "fedora"} -> "dnf"
    [] distro = "ubuntu" -> "apt"
    [] distro = "arch" -> "pacman"
    [] distro = "opensuse" -> "zypper"
    [] OTHER -> "unknown"

Opened(what) == [text |-> "Opened {}", arg |-> what, err |-> "", pct |-> 0]

\* the values the sliders are dragged to (0.25 and 1.0)
SliderValues == {33554432, F32One}

\* the widgets of the panel a frame can find clicked (or the slider dragged)
Click(widget, app, value) ==
  [type |-> "Click", key |-> widget, mods |-> {}, state |-> app, pos |-> {value}]

Clicks ==
  {Click("app_button", a, 0) :
     a \in {"browser", "game_launcher", "software_center", "terminal"}}
  \cup {Click(x, "", 0) :
          x \in {"brightness-", "brightness+", "volume-", "volume+", "wifi",
                 "bluetooth", "clipboard", "wallet", "package_manager", "clear"}}
  \cup {Click(x, "", v) : x \in {"brightness_slider", "volume_slider"}, v \in SliderValues}

\* the widgets of update, in the order the frame builds them; c the click
Launcher_widgets(w, c, o) ==
  LET x == c.key
      v == CHOOSE n \in c.pos : TRUE
  IN CASE x = "app_button" -> Launcher_app_button(w, c.state, o.spawn)
       [] x = "brightness-" ->
            Launcher_adjust_brightness(
              Dispatch(w, Call("adjust_brightness", "", 0 - F32Tenth)), 0 - F32Tenth, o.sink)
       [] x = "brightness_slider" -> [w EXCEPT !.self.brightness = v]
       [] x = "brightness+" ->
            Launcher_adjust_brightness(
              Dispatch(w, Call("adjust_brightness", "", F32Tenth)), F32Tenth, o.sink)
       [] x = "volume-" ->
            Launcher_adjust_volume(
              Dispatch(w, Call("adjust_volume", "", 0 - F32Tenth)), 0 - F32Tenth, o.sink)
       [] x = "volume_slider" -> [w EXCEPT !.self.volume = v]
       [] x = "volume+" ->
            Launcher_adjust_volume(
              Dispatch(w, Call("adjust_volume", "", F32Tenth)), F32Tenth, o.sink)
       [] x = "wifi" -> Launcher_toggle_wifi(Dispatch(w, Call("toggle_wifi", "", 0)), o.sink)
       [] x = "bluetooth" ->
            Launcher_toggle_bluetooth(Dispatch(w, Call("toggle_bluetooth", "", 0)), o.sink)
       [] x = "clipboard" ->
            Launcher_read_clipboard(Dispatch(w, Call("read_clipboard", "", 0)), o.sink)
       [] x = "wallet" ->
            Push(Submit(w, Command("kwalletmanager5", "", 0, o.sink)),
                 PlainNote("Opened KDE Wallet"))
       [] x = "package_manager" ->
            Push(Submit(w, Command("wezterm", pkg_manager(w.self.distro), 0, o.sink)),
                 Opened(pkg_manager(w.self.distro)))
       [] x = "clear" -> [w EXCEPT !.self.notifications = << >>]
       [] OTHER -> w

\* eframe::App::update: reap, then the widgets
Launcher_update(w, c, o) ==
  LET w1 == [w EXCEPT !.self.running_apps = Reap(@, w.procs)]
  IN Launcher_widgets(w1, c, o)


(***************************************************************************)
(* main.rs and the session core's compositor::main.                        *)
(***************************************************************************)
\* args.get(1): None, or Some of the first argument
None == "None"

Args == {None, "--compositor", "--launcher", "--verbose", ""}

\* no handler has run yet
NoWorld == World(NoEnv, << >>, << >>)

ArgvEvent(a) == [type |-> "Argv", key |-> a, mods |-> {}, state |-> "", pos |-> {}]

Init ==
  /\ pc = "main"
  /\ env = NoEnv
  /\ launcher = NoLauncher
  /\ procs = << >>
  /\ toplevels = [x \in Windows |-> NoToplevel]
  /\ clicks = 0
  /\ event = NoEvent
  /\ before = NoWorld
  /\ dispatched = << >>
  /\ submitted = << >>

\* a step that is no handler: it clears the record of the last handler
Quiet ==
  /\ event' = NoEvent
  /\ before' = NoWorld
  /\ dispatched' = << >>
  /\ submitted' = << >>

\* main where every other argument falls into the arm of the session core
MainArm_Default(a) ==
  CASE a = "--launcher" ->
         [pc |-> "launcher_new", calls |-> <<Call("launcher::main", "", 0)>>]
    [] OTHER ->
         [pc |-> "env_new", calls |-> <<Call("compositor::main", "", 0)>>]

\* what main does with args.get(1): the calls it makes and where it goes on
MainArm(a) ==
  CASE a = "--launcher" ->
         [pc |-> "launcher_new", calls |-> <<Call("launcher::main", "", 0)>>]
    [] a \in {"--compositor", None} ->
         [pc |-> "env_new", calls |-> <<Call("compositor::main", "", 0)>>]
    [] OTHER ->
         [pc |-> "exit1",
          calls |-> <<Call("eprintln", "Usage: {} [--launcher | --compositor]", 0),
                      Call("process::exit", "", 1)>>]

\* main: match args.get(1)
Main ==
  /\ pc = "main"
  /\ \E a \in Args :
       /\ event' = ArgvEvent(a)
       /\ pc' = MainArm(a).pc
       /\ dispatched' = MainArm(a).calls
  /\ UNCHANGED <<env, launcher, procs, toplevels, clicks, before, submitted>>

\* the result of config_str.parse::<Value>().expect("Invalid config format")
ConfigParsed(doc) ==
  [type |-> "Config", key |-> IF doc.valid THEN "Ok" ELSE "Invalid config format",
   mods |-> {}, state |-> "", pos |-> {}]

\* the locals of BlueEnvironment::new before the config is read: the display
\* globals, the seat, and the keyboard and pointer add_keyboard/add_pointer gave
EnvLocals(kb, ptr) ==
  [NoEnv EXCEPT !.compositor_state = TRUE, !.seat_state = TRUE,
                !.keyboard = kb, !.pointer = ptr]

\* compositor::main up to the seat of BlueEnvironment::new: the event loop, the
\* display, CompositorState, XdgShellState, SeatState, DataDeviceState, the seat
EnvGlobals ==
  /\ pc = "env_new"
  /\ pc' = "env_config"
  /\ \E b \in Boots : env' = EnvLocals(b.keyboard, b.pointer)
  /\ Quiet
  /\ UNCHANGED <<launcher, procs, toplevels, clicks>>

\* BlueEnvironment::new from the config on: a config that does not parse
\* panics in expect("Invalid config format")
EnvNew ==
  /\ pc = "env_config"
  /\ \E b \in Boots :
       /\ b.keyboard = env.keyboard
       /\ b.pointer = env.pointer
       /\ event' = ConfigParsed(b.doc)
       /\ IF b.doc.valid
          THEN /\ env' = BlueEnvironment_new(b)
               /\ pc' = IF b.image THEN "startup" ELSE "startup_noimage"
          ELSE /\ env' = env
               /\ pc' = "panicked"
  /\ before' = NoWorld
  /\ dispatched' = << >>
  /\ submitted' = << >>
  /\ UNCHANGED <<launcher, procs, toplevels, clicks>>

\* compositor::main from winit::init to the loop: the output, the background
\* (config["appearance"]["background"] panics when the key is absent), the
\* power profile and the notification daemon
EnvStartup ==
  /\ pc \in {"startup", "startup_noimage"}
  /\ LET e1 == [env EXCEPT !.outputs = @ + 1]
     IN IF ~e1.config.has_background
        THEN pc' = "panicked" /\ env' = e1 /\ submitted' = << >>
        ELSE /\ pc' = "time"
             /\ env' = IF as_str(e1.config.background) # {}
                       THEN Env_load_background(e1, pc = "startup")
                       ELSE e1
             /\ \E o \in Oracles :
                  submitted' = <<Command("powerprofilesctl", "set", 0, o.sink),
                                 Command("mako", "", 0, o.sink)>>
  /\ event' = NoEvent
  /\ before' = NoWorld
  /\ dispatched' = << >>
  /\ UNCHANGED <<launcher, procs, toplevels, clicks>>

\* a `?` of compositor::main returns the error: main.rs logs it and exits with 1
EnvFails ==
  /\ pc \in {"env_new", "startup", "startup_noimage", "input", "render"}
  /\ pc' = "exit1"
  /\ Quiet
  /\ UNCHANGED <<env, launcher, procs, toplevels, clicks>>

\* state.time = BlueEnvironment::get_current_time()
EnvTime ==
  /\ pc = "time"
  /\ pc' = "xwayland"
  /\ Quiet
  /\ UNCHANGED <<env, launcher, procs, toplevels, clicks>>

\* xwayland.handle_events(&mut state.space, ..): a new window may be mapped
EnvXWayland ==
  /\ pc = "xwayland"
  /\ pc' = "input"
  /\ \/ UNCHANGED <<env, toplevels>>
     \/ /\ env.xwayland
        /\ \E x \in DOMAIN toplevels :
             /\ toplevels[x].current = "unmapped"
             /\ toplevels' = [toplevels EXCEPT ![x] = Toplevel("Normal", "none")]
             /\ env' = [env EXCEPT !.space = Append(@, x)]
  /\ Quiet
  /\ UNCHANGED <<launcher, procs, clicks>>

\* handle_input, given ev in the world w0, left the world w
EnvHandled(w0, ev, w) ==
  /\ Len(w.self.notifications) <= MaxNotifs
  /\ Len(w.procs) <= MaxProcs
  /\ env' = w.self
  /\ procs' = w.procs
  /\ toplevels' = w.toplevels
  /\ event' = ev
  /\ before' = w0
  /\ dispatched' = w.dispatched
  /\ submitted' = w.submitted
  /\ pc' = IF w.panicked THEN "panicked" ELSE "input"

\* winit.dispatch_new_events: one input event given to handle_input
EnvInput ==
  /\ pc = "input"
  /\ \E ev \in InputEvents, o \in Oracles :
       EnvHandled(World(env, procs, toplevels), ev,
                  Env_handle_input(World(env, procs, toplevels), ev, o))
  /\ UNCHANGED <<launcher, clicks>>

\* dispatch_new_events returns: no more events are queued
EnvInputDone ==
  /\ pc = "input"
  /\ pc' = "reap"
  /\ Quiet
  /\ UNCHANGED <<env, launcher, procs, toplevels, clicks>>

\* state.running_apps.retain(..)
EnvReap ==
  /\ pc = "reap"
  /\ pc' = "render"
  /\ env' = [env EXCEPT !.running_apps = Reap(@, procs)]
  /\ Quiet
  /\ UNCHANGED <<launcher, procs, toplevels, clicks>>

\* a render whose space.commit makes every pending window request current
EnvRender_Commits ==
  /\ pc = "render"
  /\ pc' = "time"
  /\ toplevels' = [x \in DOMAIN toplevels |->
                     IF toplevels[x].pending = "none" THEN toplevels[x]
                     ELSE Toplevel(IF toplevels[x].pending = "FULLSCREEN"
                                   THEN "Fullscreen" ELSE "Normal", "none")]
  /\ Quiet
  /\ UNCHANGED <<env, launcher, procs, clicks>>

\* render_background, space.render, space.commit, flush_clients
EnvRender ==
  /\ pc = "render"
  /\ pc' = "time"
  /\ Quiet
  /\ UNCHANGED <<env, launcher, procs, toplevels, clicks>>

(***************************************************************************)
(* The settings-panel client's launcher::main.                             *)
(***************************************************************************)
\* launcher::main up to BlueLauncher::new: a config that does not parse panics
\* in expect, one without [appearance] in config["appearance"]
LauncherNew ==
  /\ pc = "launcher_new"
  /\ \E b \in Boots :
       IF b.doc.valid /\ b.doc.has_appearance
       THEN launcher' = BlueLauncher_new(b) /\ pc' = "update"
       ELSE launcher' = launcher /\ pc' = "panicked"
  /\ Quiet
  /\ UNCHANGED <<env, procs, toplevels, clicks>>

\* update, with the click c in the world w0, left the world w
LauncherUpdated(w0, c, w) ==
  /\ Len(w.self.notifications) <= MaxNotifs
  /\ Len(w.procs) <= MaxProcs
  /\ launcher' = w.self
  /\ procs' = w.procs
  /\ event' = c
  /\ before' = w0
  /\ dispatched' = w.dispatched
  /\ submitted' = w.submitted
  /\ pc' = IF w.panicked THEN "panicked" ELSE "update"

\* one frame in which a widget is clicked
LauncherUpdate ==
  /\ pc = "update"
  /\ clicks < MaxClicks
  /\ \E c \in Clicks, o \in Oracles :
       LauncherUpdated(World(launcher, procs, toplevels), c,
                       Launcher_update(World(launcher, procs, toplevels), c, o))
  /\ clicks' = clicks + 1
  /\ UNCHANGED <<env, toplevels>>

\* one frame in which nothing is clicked
LauncherIdle ==
  /\ pc = "update"
  /\ launcher' = [launcher EXCEPT !.running_apps = Reap(@, procs)]
  /\ event' = NoEvent
  /\ before' = World(launcher, procs, toplevels)
  /\ dispatched' = << >>
  /\ submitted' = << >>
  /\ UNCHANGED <<pc, env, procs, toplevels, clicks>>

\* eframe::run_native returns an error: main.rs logs it and exits with 1
LauncherFails ==
  /\ pc = "launcher_new"
  /\ pc' = "exit1"
  /\ Quiet
  /\ UNCHANGED <<env, launcher, procs, toplevels, clicks>>

(***************************************************************************)
(* The environment: spawned processes and window clients.                  *)
(***************************************************************************)
Alive == InLoop \/ pc = "update"

\* a spawned process ends; its status can be collected, or it cannot
ProcessExit ==
  /\ Alive
  /\ \E pid \in 1 .. Len(procs), st \in {"exited", "unwaitable"} :
       /\ procs[pid].state = "running"
       /\ procs' = [procs EXCEPT ![pid].state = st]
  /\ Quiet
  /\ UNCHANGED <<pc, env, launcher, toplevels, clicks>>

\* the client acknowledges the configure request: it becomes the current state
ClientAck ==
  /\ InLoop
  /\ \E x \in DOMAIN toplevels :
       /\ toplevels[x].pending # "none"
       /\ toplevels' = [toplevels EXCEPT ![x] =
            Toplevel(IF @.pending = "FULLSCREEN" THEN "Fullscreen" ELSE "Normal", "none")]
  /\ Quiet
  /\ UNCHANGED <<pc, env, launcher, procs, clicks>>

\* a toplevel whose configure request took effect, keeping the request all the same
ConfigureFailed_Applied(t) ==
  Toplevel(IF t.pending = "FULLSCREEN" THEN "Fullscreen" ELSE "Normal", "none")

\* a toplevel whose configure request failed: current_state() is what it was
ConfigureFailed(t) == [t EXCEPT !.pending = "none"]

\* the outcome of a configure request, as the event of the step that brings it
ConfigureEvent(window, kind, outcome) ==
  [type |-> "Configure", key |-> kind, mods |-> {}, state |-> outcome, pos |-> {window}]

\* the configure request fails: the current state stays
ConfigureFails ==
  /\ InLoop
  /\ \E x \in DOMAIN toplevels :
       /\ toplevels[x].pending # "none"
       /\ toplevels' = [toplevels EXCEPT ![x] = ConfigureFailed(@)]
       /\ event' = ConfigureEvent(x, toplevels[x].pending, "failed")
  /\ before' = World(env, procs, toplevels)
  /\ dispatched' = << >>
  /\ submitted' = << >>
  /\ UNCHANGED <<pc, env, launcher, procs, clicks>>

Next ==
  \/ Main
  \/ EnvGlobals
  \/ EnvNew
  \/ EnvStartup
  \/ EnvFails
  \/ EnvTime
  \/ EnvXWayland
  \/ EnvInput
  \/ EnvInputDone
  \/ EnvReap
  \/ EnvRender
  \/ LauncherNew
  \/ LauncherUpdate
  \/ LauncherIdle
  \/ LauncherFails
  \/ ProcessExit
  \/ ClientAck
  \/ ConfigureFails

Spec == Init /\ [][Next]_vars


(***************************************************************************)
(* The Settings Controller on its own: adjust_brightness, adjust_volume,   *)
(* toggle_wifi and toggle_bluetooth of either struct, called with any      *)
(* delta, from the state the constructor leaves.                           *)
(***************************************************************************)
\* the deltas of the calls: 0.1, 0.5 and 1.5, and their negatives
Deltas ==
  {F32Tenth, 0 - F32Tenth, F32Half, 0 - F32Half, F32One + F32Half, 0 - (F32One + F32Half)}

SettingsBoots == {b \in Boots : b.doc = DocFull}

InitSettings ==
  /\ \E b \in SettingsBoots :
       \/ pc = "call_env" /\ env = BlueEnvironment_new(b) /\ launcher = NoLauncher
       \/ pc = "call_launcher" /\ env = NoEnv /\ launcher = BlueLauncher_new(b)
  /\ procs = << >>
  /\ toplevels = [x \in Windows |-> NoToplevel]
  /\ clicks = 0
  /\ event = NoEvent
  /\ before = NoWorld
  /\ dispatched = << >>
  /\ submitted = << >>

\* the call `call` of the session core's struct took the world from w0 to w
EnvCalled(w0, w, call) ==
  /\ pc = "call_env"
  /\ Len(env.notifications) < MaxCalls
  /\ env' = w.self
  /\ before' = w0
  /\ dispatched' = <<call>>
  /\ submitted' = w.submitted
  /\ UNCHANGED <<pc, launcher, procs, toplevels, clicks, event>>

\* the call `call` of the settings panel's struct took the world from w0 to w
LauncherCalled(w0, w, call) ==
  /\ pc = "call_launcher"
  /\ Len(launcher.notifications) < MaxCalls
  /\ launcher' = w.self
  /\ before' = w0
  /\ dispatched' = <<call>>
  /\ submitted' = w.submitted
  /\ UNCHANGED <<pc, env, procs, toplevels, clicks, event>>

EnvWorld == World(env, procs, toplevels)

LauncherWorld == World(launcher, procs, toplevels)

CallEnvAdjustBrightness ==
  \E d \in Deltas, sink \in BOOLEAN :
    EnvCalled(EnvWorld, Env_adjust_brightness(EnvWorld, d, sink),
              Call("adjust_brightness", "", d))

CallEnvAdjustVolume ==
  \E d \in Deltas, sink \in BOOLEAN :
    EnvCalled(EnvWorld, Env_adjust_volume(EnvWorld, d, sink),
              Call("adjust_volume", "", d))

CallEnvToggleWifi ==
  \E sink \in BOOLEAN :
    EnvCalled(EnvWorld, Env_toggle_wifi(EnvWorld, sink), Call("toggle_wifi", "", 0))

CallEnvToggleBluetooth ==
  \E sink \in BOOLEAN :
    EnvCalled(EnvWorld, Env_toggle_bluetooth(EnvWorld, sink),
              Call("toggle_bluetooth", "", 0))

CallLauncherAdjustBrightness ==
  \E d \in Deltas, sink \in BOOLEAN :
    LauncherCalled(LauncherWorld, Launcher_adjust_brightness(LauncherWorld, d, sink),
                   Call("adjust_brightness", "", d))

CallLauncherAdjustVolume ==
  \E d \in Deltas, sink \in BOOLEAN :
    LauncherCalled(LauncherWorld, Launcher_adjust_volume(LauncherWorld, d, sink),
                   Call("adjust_volume", "", d))

CallLauncherToggleWifi ==
  \E sink \in BOOLEAN :
    LauncherCalled(LauncherWorld, Launcher_toggle_wifi(LauncherWorld, sink),
                   Call("toggle_wifi", "", 0))

CallLauncherToggleBluetooth ==
  \E sink \in BOOLEAN :
    LauncherCalled(LauncherWorld, Launcher_toggle_bluetooth(LauncherWorld, sink),
                   Call("toggle_bluetooth", "", 0))

NextSettings ==
  \/ CallEnvAdjustBrightness
  \/ CallEnvAdjustVolume
  \/ CallEnvToggleWifi
  \/ CallEnvToggleBluetooth
  \/ CallLauncherAdjustBrightness
  \/ CallLauncherAdjustVolume
  \/ CallLauncherToggleWifi
  \/ CallLauncherToggleBluetooth

SpecSettings == InitSettings /\ [][NextSettings]_vars


(***************************************************************************)
(* The Window Manager on its own: the tick loop of a session core with a   *)
(* keyboard, a pointer and XWayland, given only left presses over windows  *)
(* and the return-to-desktop key, with more windows than Spec maps.        *)
(***************************************************************************)
\* the machine of SpecWindows: the first of Boots
WindowsBoot == CHOOSE b \in Boots : b.doc = DocFull /\ b.keyboard /\ b.pointer /\ b.xwayland

\* the state compositor::main enters its loop in on that machine
InitWindows ==
  /\ pc = "time"
  /\ env = Env_load_background([BlueEnvironment_new(WindowsBoot) EXCEPT !.outputs = 1],
                               TRUE)
  /\ launcher = NoLauncher
  /\ procs = << >>
  /\ toplevels = [x \in 1 .. MaxToplevels |-> NoToplevel]
  /\ clicks = 0
  /\ event = NoEvent
  /\ before = NoWorld
  /\ dispatched = << >>
  /\ submitted = << >>

\* left presses over every non-empty set of windows, and the Escape key with
\* logo held, pressed and released
WindowEvents ==
  {PointerButtonEvent("Left", "Pressed", pos) : pos \in (SUBSET DOMAIN toplevels) \ {{}}}
  \cup {KeyboardEvent("Escape", {"logo"}, st) : st \in KeyStates}

\* winit.dispatch_new_events: one of these events given to handle_input
WindowInput ==
  /\ pc = "input"
  /\ \E ev \in WindowEvents, o \in Oracles :
       EnvHandled(EnvWorld, ev, Env_handle_input(EnvWorld, ev, o))
  /\ UNCHANGED <<launcher, clicks>>

NextWindows ==
  \/ EnvTime
  \/ EnvXWayland
  \/ WindowInput
  \/ EnvInputDone
  \/ EnvReap
  \/ EnvRender
  \/ ClientAck
  \/ ConfigureFails

SpecWindows == InitWindows /\ [][NextWindows]_vars

(***************************************************************************)
(* The session core and the settings panel as two processes of one         *)
(* session, each with the struct its own main built, on one machine.       *)
(***************************************************************************)
InitBoth ==
  /\ pc = "both"
  /\ \E b \in SettingsBoots :
       /\ env = BlueEnvironment_new(b)
       /\ launcher = BlueLauncher_new(b)
  /\ procs = << >>
  /\ toplevels = [x \in Windows |-> NoToplevel]
  /\ clicks = 0
  /\ event = NoEvent
  /\ before = NoWorld
  /\ dispatched = << >>
  /\ submitted = << >>

\* the applications launched in SpecBoth
BothApps == {"browser", "terminal"}

\* the operations issued so far, through either process
BothCalls == Len(env.notifications) + Len(launcher.notifications)

\* an operation of the session core's struct took the world from w0 to w
EnvDid(w0, w, call) ==
  /\ pc = "both"
  /\ BothCalls < MaxCalls
  /\ env' = w.self
  /\ procs' = w.procs
  /\ before' = w0
  /\ dispatched' = <<call>>
  /\ submitted' = w.submitted
  /\ UNCHANGED <<pc, launcher, toplevels, clicks, event>>

\* an operation of the settings panel's struct took the world from w0 to w
LauncherDid(w0, w, call) ==
  /\ pc = "both"
  /\ BothCalls < MaxCalls
  /\ launcher' = w.self
  /\ procs' = w.procs
  /\ before' = w0
  /\ dispatched' = <<call>>
  /\ submitted' = w.submitted
  /\ UNCHANGED <<pc, env, toplevels, clicks, event>>

EnvAdjusts ==
  \E d \in Deltas, sink \in BOOLEAN :
    \/ EnvDid(EnvWorld, Env_adjust_brightness(EnvWorld, d, sink),
              Call("adjust_brightness", "", d))
    \/ EnvDid(EnvWorld, Env_adjust_volume(EnvWorld, d, sink), Call("adjust_volume", "", d))

EnvToggles ==
  \E sink \in BOOLEAN :
    \/ EnvDid(EnvWorld, Env_toggle_wifi(EnvWorld, sink), Call("toggle_wifi", "", 0))
    \/ EnvDid(EnvWorld, Env_toggle_bluetooth(EnvWorld, sink),
              Call("toggle_bluetooth", "", 0))

EnvLaunches ==
  \E app \in BothApps, r \in SpawnResults :
    EnvDid(EnvWorld, Env_launch_app(EnvWorld, app, r), Call("launch_app", app, 0))

LauncherAdjusts ==
  \E d \in Deltas, sink \in BOOLEAN :
    \/ LauncherDid(LauncherWorld, Launcher_adjust_brightness(LauncherWorld, d, sink),
                   Call("adjust_brightness", "", d))
    \/ LauncherDid(LauncherWorld, Launcher_adjust_volume(LauncherWorld, d, sink),
                   Call("adjust_volume", "", d))

LauncherToggles ==
  \E sink \in BOOLEAN :
    \/ LauncherDid(LauncherWorld, Launcher_toggle_wifi(LauncherWorld, sink),
                   Call("toggle_wifi", "", 0))
    \/ LauncherDid(LauncherWorld, Launcher_toggle_bluetooth(LauncherWorld, sink),
                   Call("toggle_bluetooth", "", 0))

LauncherLaunches ==
  \E app \in BothApps, r \in SpawnResults :
    LauncherDid(LauncherWorld, Launcher_launch_app(LauncherWorld, app, r),
                Call("launch_app", app, 0))

NextBoth ==
  \/ EnvAdjusts
  \/ EnvToggles
  \/ EnvLaunches
  \/ LauncherAdjusts
  \/ LauncherToggles
  \/ LauncherLaunches

SpecBoth == InitBoth /\ [][NextBoth]_vars

(***************************************************************************)
(* The two implementations of the settings operations side by side: both   *)
(* structs start from the values one machine seeds and are given the same  *)
(* operation, with the same argument, at every step.                       *)
(***************************************************************************)
InitLockstep ==
  /\ pc = "lockstep"
  /\ \E b \in SettingsBoots :
       /\ env = BlueEnvironment_new(b)
       /\ launcher = BlueLauncher_new(b)
  /\ procs = << >>
  /\ toplevels = [x \in Windows |-> NoToplevel]
  /\ clicks = 0
  /\ event = NoEvent
  /\ before = NoWorld
  /\ dispatched = << >>
  /\ submitted = << >>

\* the operation `call` took the session core's world from w0 to we and the
\* panel's world to wl; submitted holds the core's commands, then the panel's
BothCalled(w0, we, wl, call) ==
  /\ pc = "lockstep"
  /\ Len(env.notifications) < MaxCalls
  /\ env' = we.self
  /\ launcher' = wl.self
  /\ before' = w0
  /\ dispatched' = <<call>>
  /\ submitted' = we.submitted \o wl.submitted
  /\ UNCHANGED <<pc, procs, toplevels, clicks, event>>

BothAdjustBrightness ==
  \E d \in Deltas, se \in BOOLEAN, sl \in BOOLEAN :
    BothCalled(EnvWorld, Env_adjust_brightness(EnvWorld, d, se),
               Launcher_adjust_brightness(LauncherWorld, d, sl),
               Call("adjust_brightness", "", d))

BothAdjustVolume ==
  \E d \in Deltas, se \in BOOLEAN, sl \in BOOLEAN :
    BothCalled(EnvWorld, Env_adjust_volume(EnvWorld, d, se),
               Launcher_adjust_volume(LauncherWorld, d, sl),
               Call("adjust_volume", "", d))

BothToggleWifi ==
  \E se \in BOOLEAN, sl \in BOOLEAN :
    BothCalled(EnvWorld, Env_toggle_wifi(EnvWorld, se),
               Launcher_toggle_wifi(LauncherWorld, sl), Call("toggle_wifi", "", 0))

BothToggleBluetooth ==
  \E se \in BOOLEAN, sl \in BOOLEAN :
    BothCalled(EnvWorld, Env_toggle_bluetooth(EnvWorld, se),
               Launcher_toggle_bluetooth(LauncherWorld, sl),
               Call("toggle_bluetooth", "", 0))

NextLockstep ==
  \/ BothAdjustBrightness
  \/ BothAdjustVolume
  \/ BothToggleWifi
  \/ BothToggleBluetooth

SpecLockstep == InitLockstep /\ [][NextLockstep]_vars

(***************************************************************************)
(* The properties.  `event`, `before`, `dispatched` and `submitted` record *)
(* the last handler that ran: the event it was given, the state it began   *)
(* in, the calls it made and the commands it issued.                       *)
(***************************************************************************)
\* the struct of the running process: BlueLauncher once constructed, else
\* BlueEnvironment
Session == IF launcher # NoLauncher THEN launcher ELSE env

\* the last handler was handle_input, given a key press while a keyboard exists
KeyPress == event.type = "Keyboard" /\ event.state = "Pressed" /\ before.self.keyboard

LaunchCalls == {i \in DOMAIN dispatched : dispatched[i].fn = "launch_app"}

\* the pids of the live processes spawned under the logical name
Live(p, name) == {pid \in DOMAIN p : p[pid].name = name /\ p[pid].state = "running"}

\* C1: every key press dispatches at most one bound action, and a press of V
\* with logo and shift held dispatches adjust_volume(-0.1) and nothing else.
C1_OneActionPerPress ==
  KeyPress =>
    /\ Len(dispatched) <= 1
    /\ (event.key = "V" /\ event.mods = {"logo", "shift"}) =>
         dispatched = <<Call("adjust_volume", "", 0 - F32Tenth)>>

\* C2: launch(x) while x is tracked and its process has not been reaped is a
\* no-op: no process is spawned, the entry of x and the rest of running_apps
\* stay as they were, and no notification is appended.
C2_LaunchTrackedIsNoOp ==
  \A i \in LaunchCalls :
    LET x == dispatched[i].arg
    IN (/\ x \in DOMAIN before.self.running_apps
        /\ before.procs[before.self.running_apps[x]].state = "running")
       => /\ procs = before.procs
          /\ Session.running_apps = before.self.running_apps
          /\ Session.notifications = before.self.notifications

\* C3: at any time at most one live process launched by this process exists
\* for one logical app name.
C3_OneLiveProcessPerName ==
  \A name \in {procs[pid].name : pid \in DOMAIN procs} :
    Cardinality(Live(procs, name)) <= 1


\* the spawns of launch_app among the commands of the last handler
Spawns == {j \in DOMAIN submitted : submitted[j].arg \in SpawnResults}

\* C4: once a tracked process of x has terminated and a reap has run, x has no
\* entry left; a launch of x that follows and whose spawn succeeds is accepted:
\* it tracks the new process under x and appends the success notification.
C4_ReapedThenRelaunch ==
  /\ pc = "render" =>
       \A x \in DOMAIN env.running_apps : procs[env.running_apps[x]].state = "running"
  /\ (pc = "update" /\ before # NoWorld) =>
       \A x \in DOMAIN before.self.running_apps :
         LET pid == before.self.running_apps[x]
         IN before.procs[pid].state # "running" =>
              (x \notin DOMAIN launcher.running_apps \/ launcher.running_apps[x] # pid)
  /\ \A i \in LaunchCalls : \A j \in Spawns :
       LET x == dispatched[i].arg
       IN (x \notin DOMAIN before.self.running_apps /\ submitted[j].ok) =>
            /\ x \in DOMAIN Session.running_apps
            /\ Session.running_apps[x] = Len(procs)
            /\ Len(procs) = Len(before.procs) + 1
            /\ Session.notifications = Append(before.self.notifications, Launched(x))

\* C6: launch(x) executes the path configured under apps.x when that key holds
\* one; when the key is absent it executes the literal name x and, if the spawn
\* succeeds, tracks the process: an absent key does not abort the process.
C6_ConfiguredPathElseName ==
  \A i \in LaunchCalls :
    LET x == dispatched[i].arg
        cfg == before.self.config
        absent == ~cfg.has_apps \/ x \notin DOMAIN cfg.apps
        path == IF absent THEN x ELSE cfg.apps[x].str
    IN (absent \/ as_str(cfg.apps[x]) # {}) =>
         /\ pc # "panicked"
         /\ \E j \in Spawns : submitted[j].program = path
         /\ \A j \in Spawns : submitted[j].ok => x \in DOMAIN Session.running_apps

\* the bindings of handle_input: the key, the modifiers each is documented to
\* need, and the call it makes
Bindings ==
  {[key |-> "Escape", mods |-> {"logo"}, call |-> Call("return_to_desktop", "", 0)],
   [key |-> "B", mods |-> {"logo"}, call |-> Call("launch_app", "browser", 0)],
   [key |-> "G", mods |-> {"logo"}, call |-> Call("launch_app", "game_launcher", 0)],
   [key |-> "T", mods |-> {"logo"}, call |-> Call("launch_app", "terminal", 0)],
   [key |-> "S", mods |-> {"logo"}, call |-> Call("launch_app", "software_center", 0)],
   [key |-> "W", mods |-> {"logo"}, call |-> Call("toggle_wifi", "", 0)],
   [key |-> "L", mods |-> {"logo"}, call |-> Call("toggle_bluetooth", "", 0)],
   [key |-> "V", mods |-> {"logo"}, call |-> Call("adjust_volume", "", F32Tenth)],
   [key |-> "V", mods |-> {"logo", "shift"},
    call |-> Call("adjust_volume", "", 0 - F32Tenth)],
   [key |-> "K", mods |-> {"logo"}, call |-> Call("launch_app", "kwalletmanager5", 0)]}

\* C9: a key press matches a binding only when the modifiers held are exactly
\* the binding's set: a press that matches none (logo+shift+B, logo+ctrl+W hold
\* too many) dispatches nothing, and one that matches makes the bound call once.
C9_ExactModifierMatch ==
  KeyPress =>
    LET matched == {b \in Bindings : b.key = event.key /\ b.mods = event.mods}
    IN /\ matched = {} => dispatched = << >>
       /\ \A b \in matched :
            Cardinality({i \in DOMAIN dispatched : dispatched[i] = b.call}) = 1


\* C5: after any sequence of adjust_brightness and adjust_volume calls with
\* arbitrary positive and negative deltas, from the initial 0.5, brightness and
\* volume both lie in [0.0, 1.0].
C5_LevelsInUnitInterval ==
  /\ F32Zero <= Session.brightness /\ Session.brightness <= F32One
  /\ F32Zero <= Session.volume /\ Session.volume <= F32One

\* C5 happens: a delta of 1.5 on the volume 0.5 was clamped to 1.0
C5_ClampEngaged ==
  /\ dispatched = <<Call("adjust_volume", "", F32One + F32Half)>>
  /\ before.self.volume = F32Half
  /\ Session.volume = F32One

\* C7: when the spawn of launch(x) fails, exactly one notification is appended,
\* naming x and the OS error; no process is recorded, running_apps is as the
\* call found it, and the session keeps running.
C7_SpawnFailureReported ==
  \A i \in LaunchCalls : \A j \in Spawns :
    ~submitted[j].ok =>
      /\ Session.notifications =
           Append(before.self.notifications,
                  FailedToLaunch(dispatched[i].arg, submitted[j].arg))
      /\ Session.running_apps =
           IF pc = "update" THEN Reap(before.self.running_apps, before.procs)
           ELSE before.self.running_apps
      /\ procs = before.procs
      /\ pc \in {"input", "update"}

\* C7 happens: a launch whose spawn failed, with an app tracked before it
C7_SpawnFailed ==
  /\ LaunchCalls # {}
  /\ \E j \in Spawns : submitted[j].arg \in OsErrors
  /\ before.self.running_apps # EmptyMap

\* C8: two consecutive toggle_wifi calls leave wifi_enabled as it was before
\* the first, and append two Wi-Fi notifications that name opposite states.
C8_ToggleWifiTwice ==
  [][(dispatched = <<Call("toggle_wifi", "", 0)>>
       /\ dispatched' = <<Call("toggle_wifi", "", 0)>>) =>
      LET s0 == before.self
          s2 == Session'
          n == Len(s0.notifications)
      IN /\ s2.wifi_enabled = s0.wifi_enabled
         /\ Len(s2.notifications) = n + 2
         /\ SubSeq(s2.notifications, 1, n) = s0.notifications
         /\ \E a, b \in {"on", "off"} :
              /\ a # b
              /\ s2.notifications[n + 1] = WifiTurned(a)
              /\ s2.notifications[n + 2] = WifiTurned(b)]_vars

\* C8 happens: toggle_wifi was called right after toggle_wifi
C8_ToggledTwice ==
  /\ dispatched = <<Call("toggle_wifi", "", 0)>>
  /\ Len(before.self.notifications) = 1
  /\ before.self.notifications[1].text = "Wi-Fi turned {}"
  /\ Len(Session.notifications) = 2

\* C10: a key event whose edge is not a press is ignored entirely: no action
\* is dispatched, and running_apps, the settings, the window flags and the
\* notification log are as they were.
C10_NonPressIgnored ==
  /\ (event.type = "Keyboard" /\ event.state # "Pressed") =>
       /\ dispatched = << >>
       /\ submitted = << >>
       /\ World(env, procs, toplevels) = before
  /\ (pc = "input" /\ event = NoEvent) =>
       \A ev \in AllInputEvents : \A o \in Oracles :
         (ev.type = "Keyboard" /\ ev.state # "Pressed") =>
           Env_handle_input(EnvWorld, ev, o) = EnvWorld

\* C10 happens: the release of a bound key with logo held was handled while an
\* app was tracked and a window was mapped
C10_ReleaseHandled ==
  /\ event = KeyboardEvent("B", {"logo"}, "Released")
  /\ before.self.keyboard
  /\ before.self.running_apps # EmptyMap
  /\ before.self.space # << >>


\* C11: a config document that does not parse ends the process before any
\* window or session state exists: no state holds display globals, a seat or a
\* struct together with a failed config parse.
C11_NoSessionStateOnConfigError ==
  (event.type = "Config" /\ event.key = "Invalid config format") =>
    /\ ~env.compositor_state
    /\ ~env.seat_state
    /\ env = NoEnv
    /\ launcher = NoLauncher


\* what the settings call `call` of the running struct makes of the world w
\* when the execution sink answers `sink`
SettingsOutcome(w, call, sink) ==
  IF pc = "call_env"
  THEN CASE call.fn = "adjust_brightness" -> Env_adjust_brightness(w, call.delta, sink)
         [] call.fn = "adjust_volume" -> Env_adjust_volume(w, call.delta, sink)
         [] call.fn = "toggle_wifi" -> Env_toggle_wifi(w, sink)
         [] OTHER -> Env_toggle_bluetooth(w, sink)
  ELSE CASE call.fn = "adjust_brightness" -> Launcher_adjust_brightness(w, call.delta, sink)
         [] call.fn = "adjust_volume" -> Launcher_adjust_volume(w, call.delta, sink)
         [] call.fn = "toggle_wifi" -> Launcher_toggle_wifi(w, sink)
         [] OTHER -> Launcher_toggle_bluetooth(w, sink)

\* C12: when the command of a settings operation cannot be spawned, the log
\* records the submission failure: it is not the log the same call leaves when
\* the command is spawned.
C12_SubmissionFailureRecorded ==
  (dispatched # << >> /\ \E j \in DOMAIN submitted : ~submitted[j].ok) =>
    Session.notifications #
      SettingsOutcome(before, dispatched[1], TRUE).self.notifications


\* the log a is a prefix of the log b
IsPrefix(a, b) == Len(a) <= Len(b) /\ SubSeq(b, 1, Len(a)) = a

\* the last handler was update with the click on "Clear Notifications"
ClearClicked == event.type = "Click" /\ event.key = "clear"

\* C13: the notification log is append-only: every step other than the
\* explicit clear of the settings panel leaves the previous log as a prefix of
\* the new one, and only that clear empties a log.
C13_LogAppendOnly ==
  [][/\ IsPrefix(env.notifications, env'.notifications)
     /\ \/ IsPrefix(launcher.notifications, launcher'.notifications)
        \/ ClearClicked' /\ launcher'.notifications = << >>]_vars

\* C13 happens: a handler appended to a log that already held an entry
C13_Appended ==
  /\ Len(before.self.notifications) = 1
  /\ Len(Session.notifications) = 2
  /\ ~ClearClicked


\* the struct was constructed on machine b and no handler has changed it
SeededOn(b) ==
  \/ pc \in {"startup", "startup_noimage"} /\ env = BlueEnvironment_new(b)
  \/ pc = "update" /\ clicks = 0 /\ launcher = BlueLauncher_new(b)

\* the outputs in which a status query finds its substring
RecognizedOutputs == {"enabled", "Powered: yes", "state: charging\npercentage: 80%"}

\* C14: start-up seeding falls back to the safe default when a status query
\* fails or its output is not recognized: wifi and bluetooth are disabled and
\* the battery status is the "not detected" value; wifi and bluetooth are
\* enabled only when the substring appears in the output.
C14_SeedingFallsBack ==
  \A b \in Boots :
    SeededOn(b) =>
      /\ b.probe.nmcli \notin RecognizedOutputs => ~Session.wifi_enabled
      /\ b.probe.bluetoothctl \notin RecognizedOutputs => ~Session.bluetooth_enabled
      /\ b.probe.upower \notin RecognizedOutputs =>
           Session.battery_status = "Battery not detected"
      /\ Session.wifi_enabled => b.probe.nmcli = "enabled"
      /\ Session.bluetooth_enabled => b.probe.bluetoothctl = "Powered: yes"


\* C15: the first argument selects the mode: --launcher starts the settings
\* panel, --compositor or no argument starts the session core, and any other
\* argument starts neither, prints the usage line and exits with code 1.
C15_ModeSelection ==
  event.type = "Argv" =>
    /\ event.key = "--launcher" =>
         pc = "launcher_new" /\ dispatched = <<Call("launcher::main", "", 0)>>
    /\ event.key \in {"--compositor", None} =>
         pc = "env_new" /\ dispatched = <<Call("compositor::main", "", 0)>>
    /\ event.key \notin {"--launcher", "--compositor", None} =>
         /\ pc = "exit1"
         /\ dispatched = <<Call("eprintln", "Usage: {} [--launcher | --compositor]", 0),
                           Call("process::exit", "", 1)>>
         /\ env = NoEnv
         /\ launcher = NoLauncher

\* C15 happens: main was given an argument that names no mode
C15_UnknownArgument ==
  event.type = "Argv" /\ event.key = "--verbose" /\ pc = "exit1"


\* the last handler was handle_input, given a left press while a pointer exists
LeftPress ==
  /\ event.type = "PointerButton"
  /\ event.key = "Left"
  /\ event.state = "Pressed"
  /\ before.self.pointer

\* the fullscreen state of a toplevel as the last request made of it leaves it:
\* the state asked for while a request is on its way, else the acknowledged one
Requested(t) ==
  CASE t.pending = "FULLSCREEN" -> "Fullscreen"
    [] t.pending \in {"TOPLEVEL", "NONE"} -> "Normal"
    [] OTHER -> t.current

\* C16: on a left press over a window, the window is raised to the front and
\* its fullscreen state is toggled by a matching reconfigure request (so two
\* presses restore it), with no launch; on a left press over no window,
\* launch("blue-launcher") is invoked and no window changes.
C16_LeftPress ==
  LeftPress =>
    LET under == window_under(before.self.space, event.pos)
    IN IF under # {}
       THEN \A x \in under :
              /\ env.space = raise_window(before.self.space, x)
              /\ Requested(toplevels[x]) # Requested(before.toplevels[x])
              /\ toplevels[x].pending =
                   IF Requested(before.toplevels[x]) = "Fullscreen"
                   THEN "TOPLEVEL" ELSE "FULLSCREEN"
              /\ \A y \in Windows \ {x} : toplevels[y] = before.toplevels[y]
              /\ LaunchCalls = {}
              /\ procs = before.procs
       ELSE /\ dispatched = <<Call("launch_app", "blue-launcher", 0)>>
            /\ toplevels = before.toplevels
            /\ env.space = before.self.space

\* the return-to-desktop hotkey was the last event handled
ReturnToDesktop == KeyPress /\ event.key = "Escape" /\ "logo" \in event.mods

\* the windows the space tracks
Tracked(w) == {w.self.space[i] : i \in 1 .. Len(w.self.space)}

\* handle_input given the same hotkey once more, on the world as it is now
SecondEscape == Env_handle_input(EnvWorld, event, CHOOSE o \in Oracles : TRUE)

\* C17: on the return-to-desktop hotkey every tracked window, whatever its state,
\* is sent the request to leave fullscreen and be restored (so the state asked of
\* it is Normal, never Fullscreen), nothing else of the session changes, and
\* the same hotkey handled a second time leaves every window and the session as
\* they are.
C17_ReturnToDesktop ==
  ReturnToDesktop =>
    /\ \A x \in Tracked(before) :
         /\ toplevels[x].pending = "NONE"
         /\ toplevels[x].current = before.toplevels[x].current
         /\ Requested(toplevels[x]) = "Normal"
    /\ \A x \in DOMAIN toplevels \ Tracked(before) : toplevels[x] = before.toplevels[x]
    /\ env = before.self
    /\ procs = before.procs
    /\ submitted = << >>
    /\ SecondEscape.toplevels = toplevels
    /\ SecondEscape.self = env
    /\ SecondEscape.procs = procs

\* the hotkey handled with two windows tracked, one fullscreen and one asked to
\* become fullscreen
C17_TwoWindows ==
  /\ ReturnToDesktop
  /\ Len(before.self.space) = 2
  /\ \E x, y \in Tracked(before) :
       /\ x # y
       /\ before.toplevels[x].current = "Fullscreen"
       /\ before.toplevels[y].pending = "FULLSCREEN"

\* the request of a fullscreen toggle on one window failed in the last step
ToggleFailed(x) ==
  /\ event.type = "Configure"
  /\ event.state = "failed"
  /\ event.pos = {x}
  /\ event.key \in {"FULLSCREEN", "TOPLEVEL"}

LastNote == Session.notifications[Len(Session.notifications)]

\* on or off, as the toggles name a boolean
OnOff(flag) == IF flag THEN "on" ELSE "off"

\* C19: after each adjust_brightness, adjust_volume, toggle_wifi and
\* toggle_bluetooth call, whether its command could be submitted or not, the
\* field holds the intended value (the old value plus the delta, clamped to
\* [0, 1]; the flipped boolean), exactly one command was submitted and exactly
\* one notification appended, and both carry that stored value: its percentage,
\* or on/off.
C19_IntendedValueEverywhere ==
  dispatched # << >> =>
    LET call == dispatched[1]
        s0 == before.self
        s == Session
    IN /\ Len(submitted) = 1
       /\ Len(s.notifications) = Len(s0.notifications) + 1
       /\ CASE call.fn = "adjust_brightness" ->
                 /\ s.brightness = F32Clamp(F32Add(s0.brightness, call.delta),
                                            F32Zero, F32One)
                 /\ submitted[1].program = "brightnessctl"
                 /\ submitted[1].pct = Percent(s.brightness)
                 /\ LastNote = BrightnessSetTo(Percent(s.brightness))
            [] call.fn = "adjust_volume" ->
                 /\ s.volume = F32Clamp(F32Add(s0.volume, call.delta), F32Zero, F32One)
                 /\ submitted[1].program = "wpctl"
                 /\ submitted[1].pct = Percent(s.volume)
                 /\ LastNote = VolumeSetTo(Percent(s.volume))
            [] call.fn = "toggle_wifi" ->
                 /\ s.wifi_enabled = ~s0.wifi_enabled
                 /\ submitted[1].program = "nmcli"
                 /\ submitted[1].arg = OnOff(s.wifi_enabled)
                 /\ LastNote = WifiTurned(OnOff(s.wifi_enabled))
            [] OTHER ->
                 /\ call.fn = "toggle_bluetooth"
                 /\ s.bluetooth_enabled = ~s0.bluetooth_enabled
                 /\ submitted[1].program = "bluetoothctl"
                 /\ submitted[1].arg = OnOff(s.bluetooth_enabled)
                 /\ LastNote = BluetoothTurned(OnOff(s.bluetooth_enabled))

\* a volume change whose command could not be submitted
C19_VolumeChangedCommandFailed ==
  /\ dispatched # << >>
  /\ dispatched[1].fn = "adjust_volume"
  /\ ~submitted[1].ok
  /\ Session.volume # before.self.volume
  /\ Percent(Session.volume) # Percent(before.self.volume)

\* the four fields of SettingsState
SettingsState(self) ==
  <<self.brightness, self.volume, self.wifi_enabled, self.bluetooth_enabled>>

SettingsOperations == {"adjust_brightness", "adjust_volume", "toggle_wifi", "toggle_bluetooth"}

\* C20: whenever an input or a frame handled after startup leaves brightness,
\* volume, wifi_enabled or bluetooth_enabled changed, the handler called one of
\* adjust_brightness, adjust_volume, toggle_wifi, toggle_bluetooth, submitted a
\* command and appended a notification.
C20_OnlyControllerWrites ==
  (before # NoWorld /\ SettingsState(Session) # SettingsState(before.self)) =>
    /\ \E i \in DOMAIN dispatched : dispatched[i].fn \in SettingsOperations
    /\ submitted # << >>
    /\ Len(Session.notifications) = Len(before.self.notifications) + 1
    /\ IsPrefix(before.self.notifications, Session.notifications)

\* a reap took the struct from s to t: the entries of processes that have ended
\* are gone, the entries of running processes are as they were, and neither the
\* log nor a settings field changed
ReapEffect(s, t) ==
  /\ DOMAIN t.running_apps =
       {x \in DOMAIN s.running_apps : procs[s.running_apps[x]].state = "running"}
  /\ \A x \in DOMAIN t.running_apps : t.running_apps[x] = s.running_apps[x]
  /\ t.notifications = s.notifications
  /\ SettingsState(t) = SettingsState(s)

\* the step is the reap of a tick of the session core
EnvReapStep == pc = "reap" /\ pc' = "render"

\* the step is a frame of the panel in which nothing is clicked: its reap only
LauncherReapStep ==
  pc = "update" /\ pc' = "update" /\ event' = NoEvent /\ before' # NoWorld

\* C21: a reap removes exactly the tracked entries whose process has ended, keeps
\* the entry of every process still running, appends no notification and
\* changes no settings field.
C21_ReapExact ==
  [][/\ EnvReapStep => ReapEffect(env, env')
     /\ LauncherReapStep => ReapEffect(launcher, launcher')]_vars

\* the stage of the loop that follows a stage
NextStage(stage) ==
  LET i == CHOOSE j \in 1 .. Len(TickStages) : TickStages[j] = stage
  IN TickStages[(i % Len(TickStages)) + 1]

InputEventTypes == {"Keyboard", "PointerButton", "PointerMotion"}

\* C22: a tick of the session core goes through clock, window-server events,
\* input events, reap and render in this order and then starts over; windows
\* are mapped only in the window-server step, input events are handled only
\* in the input step, tracked entries are dropped only in the reap step; and the
\* render step leaves the session state (settings, tracked processes,
\* notifications, windows) as it is.
C22_TickOrder ==
  [][/\ (InLoop /\ InLoop' /\ pc' # pc) => pc' = NextStage(pc)
     /\ (InLoop /\ Len(env'.space) > Len(env.space)) => (pc = "xwayland" /\ pc' = "input")
     /\ (event'.type \in InputEventTypes) => pc = "input"
     /\ (InLoop /\ DOMAIN env'.running_apps # DOMAIN env.running_apps
                /\ DOMAIN env'.running_apps \subseteq DOMAIN env.running_apps)
          => EnvReapStep
     /\ (pc = "render" /\ pc' # pc) => UNCHANGED <<env, procs, toplevels>>]_vars

\* a tick starts over with an application tracked, a notification logged and a
\* window request pending: the render of the tick before saw them all
C22_RenderedWithState ==
  /\ pc = "time"
  /\ DOMAIN env.running_apps # {}
  /\ env.notifications # << >>
  /\ \E x \in DOMAIN toplevels : toplevels[x].pending # "none"

\* C23: with the settings panel running next to the session core, after any
\* sequence of toggle, adjust and launch operations issued through either process
\* both hold the same settings values, the same set of tracked applications and
\* the same notification log.
C23_OneAuthoritativeState ==
  pc = "both" =>
    /\ SettingsState(env) = SettingsState(launcher)
    /\ DOMAIN env.running_apps = DOMAIN launcher.running_apps
    /\ env.notifications = launcher.notifications

\* C24: once the session core is in its tick loop, no failure of a launch, a
\* status query, a settings command or a step of the tick ends the process: a
\* step leaves the loop only by a panic on the config document or when the
\* input step reports that the session was closed from outside.
C24_LoopSurvivesErrors ==
  [][(InLoop /\ ~InLoop') => (pc' = "panicked" \/ pc = "input")]_vars

\* the names a struct tracks whose liveness check fails
Unwaitable(self) ==
  {x \in DOMAIN self.running_apps : try_wait(procs, self.running_apps[x]) = "Err"}

\* the names of the processes a step spawned
SpawnedNames == {procs'[pid].name : pid \in (Len(procs) + 1) .. Len(procs')}

\* C25: a tracked entry whose liveness check returns an error is kept by every
\* step, reaps included, for as long as the check fails; in the settings panel,
\* whose launch refuses a tracked name, the entry stays the same process and no
\* process of that name is spawned again.
C25_CheckErrorKeepsEntry ==
  [][/\ \A x \in Unwaitable(env) : x \in DOMAIN env'.running_apps
     /\ \A x \in Unwaitable(launcher) :
          /\ x \in DOMAIN launcher'.running_apps
          /\ launcher'.running_apps[x] = launcher.running_apps[x]
          /\ x \notin SpawnedNames]_vars

\* the button of an application is clicked while its entry's check fails
C25_RefusedAfterCheckError ==
  /\ event.type = "Click"
  /\ event.key = "app_button"
  /\ event.state \in DOMAIN before.self.running_apps
  /\ before.procs[before.self.running_apps[event.state]].state = "unwaitable"

\* two commands are the same program with the same arguments
SameCommand(a, b) == a.program = b.program /\ a.arg = b.arg /\ a.pct = b.pct

\* C26: the session core's and the settings panel's adjust_brightness,
\* adjust_volume, toggle_wifi and toggle_bluetooth, started from equal settings
\* and given the same operations, agree step for step: after each operation the
\* settings values are equal, the logs are equal, and each has submitted one
\* command, the same as the other's.
C26_SettingsEquivalent ==
  pc = "lockstep" =>
    /\ SettingsState(env) = SettingsState(launcher)
    /\ env.notifications = launcher.notifications
    /\ dispatched # << >> =>
         /\ Len(submitted) = 2
         /\ SameCommand(submitted[1], submitted[2])

\* both were told to lower the brightness below zero after an earlier operation,
\* and only one of the two commands could be submitted
C26_ClampedTogether ==
  /\ pc = "lockstep"
  /\ dispatched # << >>
  /\ dispatched[1].fn = "adjust_brightness"
  /\ launcher.brightness = F32Zero
  /\ before.self.brightness # F32Zero
  /\ Len(launcher.notifications) = 2
  /\ submitted[1].ok # submitted[2].ok

====
